---- MODULE Spec2Model ----
(***************************************************************************)
(* Model of etl.py: the Sparkify data-lake ETL.  main() runs               *)
(* process_song_data and then process_log_data; each writes parquet        *)
(* destinations under output_data.  A DataFrame is a bag (multiset) of     *)
(* rows, a row is a record, and a destination of the output bucket either  *)
(* does not exist or holds a bag of rows.                                  *)
(***************************************************************************)
EXTENDS Integers, Sequences, FiniteSets, Bags, TLC

(***************************************************************************)
(* Bounds of the input datasets.                                           *)
(***************************************************************************)
MaxSongs == 2

MaxEvents == 2

(***************************************************************************)
(* SQL NULL of a nullable column, and a present value of such a column.    *)
(***************************************************************************)
Null == <<>>

Some(v) == <<v>>

(***************************************************************************)
(* Input records.  Every song record is the record of the end-to-end       *)
(* scenario with at most one of its key or text fields changed; every      *)
(* activity record likewise.  ts is epoch milliseconds, kept as            *)
(* sec * 1000 + msec because the value exceeds 32 bits.                    *)
(***************************************************************************)
BaseSong ==
  [num_songs |-> 1, artist_id |-> "A1", artist_latitude |-> 0,
   artist_longitude |-> 0, artist_location |-> "Somewhere",
   artist_name |-> "Test Artist", song_id |-> "S1", title |-> "Test Song",
   duration |-> 200, year |-> 2018]

SongRecords ==
  {BaseSong}
    \cup {[BaseSong EXCEPT !.song_id = v] : v \in {"S2"}}
    \cup {[BaseSong EXCEPT !.title = v] : v \in {"test song"}}
    \cup {[BaseSong EXCEPT !.artist_id = v] : v \in {"A2"}}
    \cup {[BaseSong EXCEPT !.artist_name = v] : v \in {"test artist"}}

BaseEvent ==
  [userId |-> "U1", firstName |-> "Ann", lastName |-> "Lee", gender |-> "F",
   level |-> "free", ts |-> [sec |-> 1541440000, msec |-> 0],
   page |-> "NextSong", song |-> "Test Song", artist |-> "Test Artist",
   sessionId |-> 1, location |-> "City", userAgent |-> "Agent"]

LogRecords ==
  {BaseEvent}
    \cup {[BaseEvent EXCEPT !.page = v] : v \in {"Home"}}
    \cup {[BaseEvent EXCEPT !.song = v] : v \in {"test song"}}
    \cup {[BaseEvent EXCEPT !.artist = v] : v \in {"test artist"}}
    \cup {[BaseEvent EXCEPT !.level = v] : v \in {"paid"}}
    \cup {[BaseEvent EXCEPT !.userId = v] : v \in {"U2"}}
    \cup {[BaseEvent EXCEPT !.ts = v] : v \in {[sec |-> 1543622400, msec |-> 123]}}

(***************************************************************************)
(* DataFrame operations (the engine's relational semantics over bags).     *)
(***************************************************************************)
RECURSIVE SumCounts(_, _)
SumCounts(B, S) ==
  IF S = {} THEN 0
  ELSE LET x == CHOOSE y \in S : TRUE IN B[x] + SumCounts(B, S \ {x})

\* the bags over Pool with between 1 and n rows
BagsOf(Pool, n) ==
  {[r \in {x \in Pool : f[x] > 0} |-> f[r]] :
     f \in {g \in [Pool -> 0..n] : SumCounts(g, Pool) \in 1..n}}

\* df.where(P)
Where(B, P(_)) == [r \in {x \in DOMAIN B : P(x)} |-> B[r]]

\* df.select(...) with renames: f maps a row to the projected row
Select(B, f(_)) ==
  [r \in {f(x) : x \in DOMAIN B} |-> SumCounts(B, {x \in DOMAIN B : f(x) = r})]

\* df.distinct()
Distinct(B) == [r \in DOMAIN B |-> 1]

\* df.drop(cols)
Drop(B, cols) == Select(B, LAMBDA x : [c \in DOMAIN x \ cols |-> x[c]])

\* df.join(other, on) (inner): one row per pair of rows satisfying on
Join(L, R, on(_, _)) ==
  LET pairs == {p \in (DOMAIN L) \X (DOMAIN R) : on(p[1], p[2])}
      PB == [p \in pairs |-> L[p[1]] * R[p[2]]]
  IN  Select(PB, LAMBDA p : p[1] @@ p[2])

\* df.join(other, on, 'left'): the inner join plus every unmatched left row
\* with the columns of the right side null.  The columns that come from the
\* right side are nullable in the result.
LeftJoin(L, R, on(_, _), rightCols) ==
  LET pairs == {p \in (DOMAIN L) \X (DOMAIN R) : on(p[1], p[2])}
      PB == [p \in pairs |-> L[p[1]] * R[p[2]]]
      unmatched == Where(L, LAMBDA l : \A r \in DOMAIN R : ~on(l, r))
  IN  Select(PB, LAMBDA p : p[1] @@ [c \in rightCols |-> Some(p[2][c])])
        (+) Select(unmatched, LAMBDA l : l @@ [c \in rightCols |-> Null])

(***************************************************************************)
(* Timestamps.  A string is a sequence of characters.                      *)
(***************************************************************************)
DigitChars == <<"0", "1", "2", "3", "4", "5", "6", "7", "8", "9">>

\* the decimal representation of n, zero-padded to w characters
RECURSIVE Pad(_, _)
Pad(n, w) ==
  IF w = 0 THEN <<>>
  ELSE Append(Pad(n \div 10, w - 1), DigitChars[(n % 10) + 1])

IsDigits(s) == Len(s) > 0 /\ \A i \in 1..Len(s) : \E d \in 1..10 : DigitChars[d] = s[i]

\* the number a string of digits denotes
RECURSIVE ParseInt(_)
ParseInt(s) ==
  IF s = <<>> THEN 0
  ELSE 10 * ParseInt(SubSeq(s, 1, Len(s) - 1))
         + ((CHOOSE d \in 1..10 : DigitChars[d] = s[Len(s)]) - 1)

\* days since 1970-01-01 of a proleptic Gregorian date
days_from_civil(y, m, d) ==
  LET yy == IF m <= 2 THEN y - 1 ELSE y
      era == yy \div 400
      yoe == yy - era * 400
      mp == IF m > 2 THEN m - 3 ELSE m + 9
      doy == (153 * mp + 2) \div 5 + d - 1
      doe == yoe * 365 + yoe \div 4 - yoe \div 100 + doy
  IN  era * 146097 + doe - 719468

\* the date of a day number
civil_from_days(z0) ==
  LET z == z0 + 719468
      era == z \div 146097
      doe == z - era * 146097
      yoe == (doe - doe \div 1460 + doe \div 36524 - doe \div 146096) \div 365
      doy == doe - (365 * yoe + yoe \div 4 - yoe \div 100)
      mp == (5 * doy + 2) \div 153
      d == doy - (153 * mp + 2) \div 5 + 1
      m == IF mp < 10 THEN mp + 3 ELSE mp - 9
      y == yoe + era * 400 + (IF m <= 2 THEN 1 ELSE 0)
  IN  [year |-> y, month |-> m, day |-> d]

\* datetime.utcfromtimestamp(ts / 1000.0)
utcfromtimestamp(ts) ==
  LET date == civil_from_days(ts.sec \div 86400)
      rem == ts.sec % 86400
  IN  [year |-> date.year, month |-> date.month, day |-> date.day,
       hour |-> rem \div 3600, minute |-> (rem % 3600) \div 60,
       second |-> rem % 60, microsecond |-> ts.msec * 1000]

\* dt.strftime("%Y-%m-%d %H:%M:%S")
strftime(dt) ==
  Pad(dt.year, 4) \o <<"-">> \o Pad(dt.month, 2) \o <<"-">> \o Pad(dt.day, 2)
    \o <<" ">> \o Pad(dt.hour, 2) \o <<":">> \o Pad(dt.minute, 2)
    \o <<":">> \o Pad(dt.second, 2)

get_timestamp(ts) == strftime(utcfromtimestamp(ts))

\* dt.weekday(): Monday is 0
weekday(dt) == (days_from_civil(dt.year, dt.month, dt.day) + 3) % 7

get_week_day(ts) == weekday(utcfromtimestamp(ts))

\* the column functions year, month, dayofmonth, hour applied to a
\* 'yyyy-MM-dd HH:mm:ss' string column
year(s) == ParseInt(SubSeq(s, 1, 4))

month(s) == ParseInt(SubSeq(s, 6, 7))

dayofmonth(s) == ParseInt(SubSeq(s, 9, 10))

hour(s) == ParseInt(SubSeq(s, 12, 13))

\* the number of ISO weeks of year y
WeeksInYear(y) ==
  LET jan1 == (days_from_civil(y, 1, 1) + 3) % 7
      leap == (y % 4 = 0 /\ y % 100 # 0) \/ y % 400 = 0
  IN  IF jan1 = 3 \/ (leap /\ jan1 = 2) THEN 53 ELSE 52

\* weekofyear: the ISO 8601 week number of the date of the string
weekofyear(s) ==
  LET y == year(s)
      days == days_from_civil(y, month(s), dayofmonth(s))
      doy == days - days_from_civil(y, 1, 1) + 1
      wd == (days + 3) % 7
      w == (doy - (wd + 1) + 10) \div 7
  IN  IF w < 1 THEN WeeksInYear(y - 1)
      ELSE IF w > WeeksInYear(y) THEN 1 ELSE w

\* CAST(string AS BIGINT): the value of a string of digits, as
\* [sec, msec] of the milliseconds it denotes, and NULL for any other string
CastToLong(s) ==
  IF IsDigits(s)
  THEN Some([sec |-> ParseInt(SubSeq(s, 1, Len(s) - 3)),
             msec |-> ParseInt(SubSeq(s, Len(s) - 2, Len(s)))])
  ELSE Null

\* long_column == string_column: the string side is cast to the type of the
\* numeric side; a comparison with NULL is not true
LongEqString(n, s) == CastToLong(s) = Some(n)

(***************************************************************************)
(* The tables of process_song_data.                                        *)
(***************************************************************************)
songs_table(df) ==
  Distinct(Select(df, LAMBDA x :
    [song_id |-> x.song_id, title |-> x.title, artist_id |-> x.artist_id,
     year |-> x.year, duration |-> x.duration]))

\* artists_table with the distinct() left out
artists_table_no_distinct(df) ==
  Select(df, LAMBDA x :
    [artist_id |-> x.artist_id, name |-> x.artist_name,
     location |-> x.artist_location, latitude |-> x.artist_latitude,
     longitude |-> x.artist_longitude])

artists_table(df) ==
  Distinct(Select(df, LAMBDA x :
    [artist_id |-> x.artist_id, name |-> x.artist_name,
     location |-> x.artist_location, latitude |-> x.artist_latitude,
     longitude |-> x.artist_longitude]))

(***************************************************************************)
(* The tables of process_log_data.                                         *)
(***************************************************************************)
\* the filter on page left out
NextSong_no_filter(df) == df

\* df.where(df.page == 'NextSong')
NextSong(df) == Where(df, LAMBDA x : x.page = "NextSong")

\* users_table with the distinct() left out
users_table_no_distinct(df) ==
  Select(df, LAMBDA x :
    [user_id |-> x.userId, first_name |-> x.firstName,
     last_name |-> x.lastName, gender |-> x.gender, level |-> x.level])

users_table(df) ==
  Distinct(Select(df, LAMBDA x :
    [user_id |-> x.userId, first_name |-> x.firstName,
     last_name |-> x.lastName, gender |-> x.gender, level |-> x.level]))

\* the columns timestamp and datetime, both computed by get_timestamp
with_timestamp(df) ==
  Select(df, LAMBDA x :
    x @@ [timestamp |-> get_timestamp(x.ts), datetime |-> get_timestamp(x.ts)])

time_table(df) ==
  Select(df, LAMBDA x :
    [start_time |-> x.timestamp, hour |-> hour(x.timestamp),
     day |-> dayofmonth(x.timestamp), week |-> weekofyear(x.timestamp),
     month |-> month(x.timestamp), year |-> year(x.timestamp),
     weekday |-> get_week_day(x.ts)])

TimeColumns == {"start_time", "hour", "day", "week", "month", "year", "weekday"}

df_songs_join_df(df, song_df) ==
  Drop(Join(df, song_df, LAMBDA l, r : r.title = l.song), {"artist_id"})

\* the join to artists with its condition left out (a cross join)
df_artists_songs_join_df_cross(df, song_df, artists_df) ==
  Join(df_songs_join_df(df, song_df), artists_df, LAMBDA l, r : TRUE)

df_artists_songs_join_df(df, song_df, artists_df) ==
  Join(df_songs_join_df(df, song_df), artists_df,
       LAMBDA l, r : l.artist = r.name)

\* the left join to time_table on ts == start_time, then the drop of the
\* year column of the left side (a row holds one column of a name, so the
\* left year is dropped before the rows are merged; the condition does not
\* read it)
songplays_df(df, song_df, artists_df) ==
  LeftJoin(Drop(df_artists_songs_join_df(df, song_df, artists_df), {"year"}),
           time_table(df),
           LAMBDA l, r : LongEqString(l.ts, r.start_time),
           TimeColumns)

songplays_table(df, song_df, artists_df) ==
  Select(songplays_df(df, song_df, artists_df), LAMBDA x :
    [start_time |-> x.start_time, user_id |-> x.userId, level |-> x.level,
     song_id |-> x.song_id, artist_id |-> x.artist_id,
     session_id |-> x.sessionId, location |-> x.location,
     user_agent |-> x.userAgent, year |-> x.year, month |-> x.month])

(***************************************************************************)
(* The program.  main is the order of the reads and writes of the run:     *)
(* those of process_song_data, then those of process_log_data.             *)
(***************************************************************************)
process_song_data == <<"write_songs", "write_artists">>

process_log_data ==
  <<"write_users", "write_time", "read_songs", "read_artists",
    "write_songplays">>

\* main with the two calls exchanged
main_log_first == process_log_data \o process_song_data

main == process_song_data \o process_log_data

Destinations == {"songs", "artists", "users", "time", "songplays"}

Missing == [exists |-> FALSE, rows |-> EmptyBag]

VARIABLES
  song_data,   \* the song records under input_data
  log_data,    \* the activity records under input_data
  store,       \* the destinations under output_data
  pc,          \* the position of the run in main
  status,      \* "running", "done", or "aborted" by an uncaught exception
  error,       \* the exception that aborted the run
  written,     \* the destinations this run has written
  song_df,     \* songs.parquet as read back
  artists_df   \* artists.parquet as read back, location dropped

vars ==
  <<song_data, log_data, store, pc, status, error, written, song_df, artists_df>>

Init ==
  /\ song_data \in BagsOf(SongRecords, MaxSongs)
  /\ log_data \in BagsOf(LogRecords, MaxEvents)
  /\ store = [d \in Destinations |-> Missing]
  /\ pc = 1
  /\ status = "running"
  /\ error = "none"
  /\ written = {}
  /\ song_df = EmptyBag
  /\ artists_df = EmptyBag

\* the log DataFrame after the filter and the timestamp columns
df == with_timestamp(NextSong(log_data))

At(stage) == status = "running" /\ pc <= Len(main) /\ main[pc] = stage

\* the next statement; the run is done after the last one
Advance ==
  /\ pc' = pc + 1
  /\ status' = IF pc = Len(main) THEN "done" ELSE "running"
  /\ error' = error

\* the exception caught and the statement tried again
Abort_retry(e) ==
  /\ error' = e
  /\ UNCHANGED <<pc, status, store, written, song_df, artists_df>>

\* an uncaught exception ends the run where it is; the destination of the
\* failing statement is left as it was
Abort(e) ==
  /\ status' = "aborted"
  /\ error' = e
  /\ UNCHANGED <<pc, store, written, song_df, artists_df>>

\* df.write.parquet(dest, mode): the storage may fail; mode 'error' (the
\* default) raises when the destination exists; otherwise the destination
\* holds exactly rows
WriteParquet(dest, rows, mode) ==
  \/ Abort("IOError")
  \/ /\ mode = "error"
     /\ store[dest].exists
     /\ Abort("AnalysisException")
  \/ /\ mode = "overwrite" \/ ~store[dest].exists
     /\ store' = [store EXCEPT ![dest] = [exists |-> TRUE, rows |-> rows]]
     /\ written' = written \cup {dest}
     /\ Advance
     /\ UNCHANGED <<song_df, artists_df>>

WriteSongs ==
  /\ At("write_songs")
  /\ WriteParquet("songs", songs_table(song_data), "overwrite")
  /\ UNCHANGED <<song_data, log_data>>

WriteArtists ==
  /\ At("write_artists")
  /\ WriteParquet("artists", artists_table(song_data), "overwrite")
  /\ UNCHANGED <<song_data, log_data>>

WriteUsers ==
  /\ At("write_users")
  /\ WriteParquet("users", users_table(NextSong(log_data)), "error")
  /\ UNCHANGED <<song_data, log_data>>

WriteTime ==
  /\ At("write_time")
  /\ WriteParquet("time", time_table(df), "overwrite")
  /\ UNCHANGED <<song_data, log_data>>

\* spark.read.parquet(songs.parquet)
ReadSongs ==
  /\ At("read_songs")
  /\ \/ Abort("IOError")
     \/ /\ ~store["songs"].exists
        /\ Abort("AnalysisException")
     \/ /\ store["songs"].exists
        /\ song_df' = store["songs"].rows
        /\ Advance
        /\ UNCHANGED <<store, written, artists_df>>
  /\ UNCHANGED <<song_data, log_data>>

\* spark.read.parquet(artists.parquet).drop('location')
ReadArtists ==
  /\ At("read_artists")
  /\ \/ Abort("IOError")
     \/ /\ ~store["artists"].exists
        /\ Abort("AnalysisException")
     \/ /\ store["artists"].exists
        /\ artists_df' = Drop(store["artists"].rows, {"location"})
        /\ Advance
        /\ UNCHANGED <<store, written, song_df>>
  /\ UNCHANGED <<song_data, log_data>>

WriteSongplays ==
  /\ At("write_songplays")
  /\ WriteParquet("songplays", songplays_table(df, song_df, artists_df),
                  "overwrite")
  /\ UNCHANGED <<song_data, log_data>>

\* main is run again on the same input and the same output bucket
Rerun ==
  /\ status \in {"done", "aborted"}
  /\ pc' = 1
  /\ status' = "running"
  /\ error' = "none"
  /\ written' = {}
  /\ song_df' = EmptyBag
  /\ artists_df' = EmptyBag
  /\ UNCHANGED <<song_data, log_data, store>>

Next ==
  \/ WriteSongs
  \/ WriteArtists
  \/ WriteUsers
  \/ WriteTime
  \/ ReadSongs
  \/ ReadArtists
  \/ WriteSongplays
  \/ Rerun

Spec == Init /\ [][Next]_vars

(***************************************************************************)
(* Properties.                                                             *)
(***************************************************************************)
Songs == store["songs"].rows

Artists == store["artists"].rows

Users == store["users"].rows

Time == store["time"].rows

Plays == store["songplays"].rows

\* the qualifying activity records of the input
Qualifying == {e \in DOMAIN log_data : e.page = "NextSong"}

SongMatches(e) == {s \in DOMAIN Songs : s.title = e.song}

ArtistMatches(e) == {a \in DOMAIN Artists : a.name = e.artist}

UniquelyMatched(e) ==
  Cardinality(SongMatches(e)) = 1 /\ Cardinality(ArtistMatches(e)) = 1

\* the columns of a songplays row that an event, a song and an artist decide
PlayKey(e, s, a) ==
  [user_id |-> e.userId, level |-> e.level, song_id |-> s.song_id,
   artist_id |-> a.artist_id, session_id |-> e.sessionId,
   location |-> e.location, user_agent |-> e.userAgent]

RowKey(r) ==
  [user_id |-> r.user_id, level |-> r.level, song_id |-> r.song_id,
   artist_id |-> r.artist_id, session_id |-> r.session_id,
   location |-> r.location, user_agent |-> r.user_agent]

\* the number of songplays rows with key k
RowsFor(k) == SumCounts(Plays, {r \in DOMAIN Plays : RowKey(r) = k})

\* the number of qualifying events, counted with their matches, that key k
\* stands for
EventsFor(k) ==
  LET n == [e \in Qualifying |->
             log_data[e] * Cardinality({m \in SongMatches(e) \X ArtistMatches(e) :
                                          PlayKey(e, m[1], m[2]) = k})]
  IN  SumCounts(n, Qualifying)

\* C1: once songplays is written, every qualifying event whose song text is
\* the title of exactly one songs row and whose artist text is the name of
\* exactly one artists row has exactly one songplays row (one per occurrence
\* of the event), carrying that song_id, that artist_id, the event's userId
\* and sessionId.
C1_OneRowPerMatchedEvent ==
  "songplays" \in written =>
    \A e \in Qualifying : UniquelyMatched(e) =>
      \A s \in SongMatches(e) : \A a \in ArtistMatches(e) :
        /\ RowsFor(PlayKey(e, s, a)) = EventsFor(PlayKey(e, s, a))
        /\ RowsFor(PlayKey(e, s, a)) >= log_data[e]
        /\ \E r \in DOMAIN Plays :
             /\ r.song_id = s.song_id /\ r.artist_id = a.artist_id
             /\ r.user_id = e.userId /\ r.session_id = e.sessionId

\* the end-to-end scenario: one song record, one activity record, one row
C1_Witness ==
  /\ "songplays" \in written
  /\ song_data = SetToBag({BaseSong})
  /\ log_data = SetToBag({BaseEvent})
  /\ BagCardinality(Plays) = 1
  /\ \A r \in DOMAIN Plays :
       /\ r.song_id = "S1" /\ r.artist_id = "A1"
       /\ r.user_id = "U1" /\ r.session_id = 1

\* C2: every songplays row comes from an activity record with page NextSong
\* whose song is exactly the title of some songs row and whose artist is
\* exactly the name of some artists row; when no record has such a match
\* the table is empty.
C2_OnlyExactMatches ==
  "songplays" \in written =>
    \A r \in DOMAIN Plays :
      \E e \in DOMAIN log_data :
        /\ e.page = "NextSong"
        /\ \E s \in DOMAIN Songs : \E a \in DOMAIN Artists :
             /\ s.title = e.song
             /\ a.name = e.artist
             /\ RowKey(r) = PlayKey(e, s, a)

\* an event that differs from the catalog only in letter case: no row
C2_Witness ==
  /\ "songplays" \in written
  /\ \E e \in Qualifying :
       /\ e.song = "test song"
       /\ \A s \in DOMAIN Songs : s.title = "Test Song"
  /\ Plays = EmptyBag

\* C3: every songplays row has the start_time derived from the ts of an
\* event it comes from, and the year and month of that time row; none of
\* the three is null.
C3_PartitionColumnsRecovered ==
  "songplays" \in written =>
    \A r \in DOMAIN Plays :
      \E e \in Qualifying : \E t \in DOMAIN Time :
        /\ t.start_time = get_timestamp(e.ts)
        /\ \E s \in SongMatches(e) : \E a \in ArtistMatches(e) :
             RowKey(r) = PlayKey(e, s, a)
        /\ r.start_time = Some(t.start_time)
        /\ r.year = Some(t.year)
        /\ r.month = Some(t.month)

\* C4: a run over an output area whose five destinations all exist aborts
\* only on a failure of the storage (no write fails because its destination
\* exists), and a completed run leaves every destination holding exactly
\* the rows computed from the input.
C4_RerunOverwrites ==
  /\ (status = "aborted" /\ \A d \in Destinations : store[d].exists)
       => error = "IOError"
  /\ status = "done" =>
       /\ \A d \in Destinations : store[d].exists
       /\ Songs = songs_table(song_data)
       /\ Artists = artists_table(song_data)
       /\ Users = users_table(NextSong(log_data))
       /\ Time = time_table(df)
       /\ Plays = songplays_table(df, Songs, Drop(Artists, {"location"}))

\* C5: the time table has exactly one row per distinct start_time of the
\* qualifying records.
C5_OneTimeRowPerStartTime ==
  "time" \in written =>
    /\ \A t \in DOMAIN Time : Time[t] = 1
    /\ \A t, u \in DOMAIN Time : t.start_time = u.start_time => t = u
    /\ {t.start_time : t \in DOMAIN Time}
         = {get_timestamp(e.ts) : e \in Qualifying}

\* C6: whenever the run is at or past the read-back of songs.parquet and
\* artists.parquet, it has written both catalog tables.
C6_CatalogWrittenBeforeReadBack ==
  (\E i \in 1..Len(main) : main[i] \in {"read_songs", "read_artists"} /\ i <= pc)
    => /\ {"songs", "artists"} \subseteq written
       /\ Songs = songs_table(song_data)
       /\ Artists = artists_table(song_data)

C6_Witness ==
  /\ status = "running"
  /\ song_df # EmptyBag
  /\ artists_df # EmptyBag

UserRow(e) ==
  [user_id |-> e.userId, first_name |-> e.firstName,
   last_name |-> e.lastName, gender |-> e.gender, level |-> e.level]

\* C7: the users table has no two identical rows, and holds one row per
\* distinct (user, names, gender, level) of the qualifying records: a user
\* seen with two levels has two rows.
C7_UsersDistinctByFullRow ==
  "users" \in written =>
    /\ \A u \in DOMAIN Users : Users[u] = 1
    /\ DOMAIN Users = {UserRow(e) : e \in Qualifying}

\* one user seen with two levels: two rows
C7_Witness ==
  /\ "users" \in written
  /\ \E u, v \in DOMAIN Users : u.user_id = v.user_id /\ u.level # v.level

SongRow(x) ==
  [song_id |-> x.song_id, title |-> x.title, artist_id |-> x.artist_id,
   year |-> x.year, duration |-> x.duration]

ArtistRow(x) ==
  [artist_id |-> x.artist_id, name |-> x.artist_name,
   location |-> x.artist_location, latitude |-> x.artist_latitude,
   longitude |-> x.artist_longitude]

\* C8: the songs table and the artists table are the sets of the
\* projections of the input song records, each row once.
C8_CatalogIsDistinctProjection ==
  /\ "songs" \in written =>
       /\ \A r \in DOMAIN Songs : Songs[r] = 1
       /\ DOMAIN Songs = {SongRow(x) : x \in DOMAIN song_data}
  /\ "artists" \in written =>
       /\ \A r \in DOMAIN Artists : Artists[r] = 1
       /\ DOMAIN Artists = {ArtistRow(x) : x \in DOMAIN song_data}

\* two records with one song projection and two artist projections
C8_Witness ==
  /\ "artists" \in written
  /\ BagCardinality(song_data) = 2
  /\ BagCardinality(Songs) = 1
  /\ BagCardinality(Artists) = 2

\* the destination a write statement writes
DestOf(stage) ==
  CASE stage = "write_songs" -> {"songs"}
    [] stage = "write_artists" -> {"artists"}
    [] stage = "write_users" -> {"users"}
    [] stage = "write_time" -> {"time"}
    [] stage = "write_songplays" -> {"songplays"}
    [] OTHER -> {}

\* the destinations the statements before position p write
WrittenBefore(p) == UNION {DestOf(main[i]) : i \in 1..(p - 1)}

WriteOrder == <<"songs", "artists", "users", "time", "songplays">>

\* C9: the destinations are written in the order songs, artists, users,
\* time, songplays; an exception leaves the run aborted at the statement
\* that raised it, with nothing after it executed, and every destination
\* written before it holding what this run wrote.
C9_FailureAbortsRun ==
  /\ \E n \in 0..Len(WriteOrder) : written = {WriteOrder[i] : i \in 1..n}
  /\ error # "none" =>
       /\ status = "aborted"
       /\ written = WrittenBefore(pc)
       /\ "songs" \in written => Songs = songs_table(song_data)
       /\ "artists" \in written => Artists = artists_table(song_data)
       /\ "users" \in written => Users = users_table(NextSong(log_data))
       /\ "time" \in written => Time = time_table(df)

\* songs and artists written, songplays missing
C9_Witness ==
  /\ status = "aborted"
  /\ error = "IOError"
  /\ {"songs", "artists"} \subseteq written
  /\ ~store["songplays"].exists

\* C10: in every songplays row the artist_id is an artist_id that the songs
\* table records for the row's song_id.
C10_SongAndArtistBelongTogether ==
  "songplays" \in written =>
    \A r \in DOMAIN Plays :
      \E s \in DOMAIN Songs : s.song_id = r.song_id /\ s.artist_id = r.artist_id
====
